---- MODULE Spec2Model ----
(***************************************************************************)
(* FileDB (src/src/db.rs): a bounded, time-expiring key-value cache on top *)
(* of an ordered storage engine.  The model follows the code step by step: *)
(* every engine operation (get, put, delete, one iterator item) is one     *)
(* step of the calling thread, so that the lock, the counter writes and    *)
(* the entry writes are visible in the order the code performs them.       *)
(*                                                                         *)
(* Byte strings are sequences of 0..255.  u64/usize arithmetic is modelled *)
(* modulo U64Modulus (64-bit words scaled to TLC's integer range). *)
(* The engine is an external collaborator: point get/put/delete may fail   *)
(* (at most MaxFaults times in a run); a full scan yields every stored     *)
(* key exactly once, in key order.                                         *)
(***************************************************************************)
EXTENDS Integers, Sequences, FiniteSets, TLC

\* ------------------------------------------------------------- bounds
NumKeys == 3          \* application keys [0,0,0,1] .. [0,0,0,NumKeys]
MaxTime == 3          \* the clock runs over 1..MaxTime seconds
MaxCapacity == 2      \* capacity is drawn from 1..MaxCapacity
MaxExpiring == 2      \* expiring_secs is drawn from 1..MaxExpiring
MaxFaults == 1        \* engine failures injected in one run
NumThreads == 2       \* threads of the concurrent specification
MaxWrapped == 3       \* with capacity 0, calls are made while the count is
                      \* within MaxWrapped of zero, on either side of the wrap

\* ------------------------------------------------------------- words
U64Modulus == 2^30
U64_MAX == U64Modulus - 1

None == <<>>
Some(x) == <<x>>

RECURSIVE to_le_bytes(_, _)
to_le_bytes(n, len) ==
    IF len = 0 THEN <<>> ELSE <<n % 256>> \o to_le_bytes(n \div 256, len - 1)

RECURSIVE from_le_bytes(_)
from_le_bytes(bytes) ==
    IF bytes = <<>> THEN 0 ELSE Head(bytes) + 256 * from_le_bytes(Tail(bytes))

\* a - b on an unsigned word: a panic with overflow checks, a wrap without
SubOverflows(a, b) == a < b
WrappingSub(a, b) == IF a >= b THEN a - b ELSE U64Modulus - (b - a)

\* --------------------------------------------------------------- keys
KEY_FOR_SIZE == <<0, 0, 0, 0>>
UserKey(i) == <<0, 0, 0, i>>
UserKeys == {UserKey(i) : i \in 1..NumKeys}

RECURSIVE BytesLess(_, _)
BytesLess(a, b) ==
    IF a = <<>> THEN b # <<>>
    ELSE IF b = <<>> THEN FALSE
    ELSE IF Head(a) # Head(b) THEN Head(a) < Head(b)
    ELSE BytesLess(Tail(a), Tail(b))

RECURSIVE SortKeys(_)
SortKeys(S) ==
    IF S = {} THEN <<>>
    ELSE LET m == CHOOSE x \in S : \A y \in S \ {x} : BytesLess(x, y)
         IN <<m>> \o SortKeys(S \ {m})

\* ------------------------------------------------------------ payloads
\* The payloads callers store: a u8, the nested vector of the tests, and a
\* value whose Serialize implementation reports an error.
Values ==
    << [ty |-> "u8", v |-> 5],
       [ty |-> "VecVecU8", v |-> << <<1, 2, 3>> >>],
       [ty |-> "Unserializable", v |-> 0] >>
ValueIds == 1..Len(Values)
GetTypes == {"u8", "VecU8", "VecVecU8"}

SerVecU8(s) == to_le_bytes(Len(s), 8) \o s

RECURSIVE SerVecs(_)
SerVecs(ss) == IF ss = <<>> THEN <<>> ELSE SerVecU8(Head(ss)) \o SerVecs(Tail(ss))

\* bincode::serialize (fixed-width little-endian lengths)
serialize(val) ==
    IF val.ty = "u8" THEN [ok |-> TRUE, bytes |-> <<val.v>>]
    ELSE IF val.ty = "VecU8" THEN [ok |-> TRUE, bytes |-> SerVecU8(val.v)]
    ELSE IF val.ty = "VecVecU8"
         THEN [ok |-> TRUE, bytes |-> to_le_bytes(Len(val.v), 8) \o SerVecs(val.v)]
    ELSE [ok |-> FALSE, bytes |-> <<>>]

DeErr == [ok |-> FALSE, v |-> <<>>, rest |-> <<>>]

DeVecU8(b) ==
    IF Len(b) < 8 THEN DeErr
    ELSE LET n == from_le_bytes(SubSeq(b, 1, 8))
         IN IF Len(b) - 8 < n THEN DeErr
            ELSE [ok |-> TRUE, v |-> SubSeq(b, 9, 8 + n),
                  rest |-> SubSeq(b, 9 + n, Len(b))]

RECURSIVE DeVecs(_, _)
DeVecs(b, n) ==
    IF n = 0 THEN [ok |-> TRUE, v |-> <<>>, rest |-> b]
    ELSE LET h == DeVecU8(b)
         IN IF ~h.ok THEN DeErr
            ELSE LET t == DeVecs(h.rest, n - 1)
                 IN IF ~t.ok THEN DeErr
                    ELSE [ok |-> TRUE, v |-> <<h.v>> \o t.v, rest |-> t.rest]

\* bincode::deserialize::<ty> (trailing bytes are allowed)
deserialize(ty, b) ==
    IF ty = "u8"
    THEN IF Len(b) < 1 THEN DeErr
         ELSE [ok |-> TRUE, v |-> b[1], rest |-> Tail(b)]
    ELSE IF ty = "VecU8" THEN DeVecU8(b)
    ELSE IF Len(b) < 8 THEN DeErr
    ELSE DeVecs(SubSeq(b, 9, Len(b)), from_le_bytes(SubSeq(b, 1, 8)))

\* ------------------------------------------------------------ envelope
\* mutant: the timestamp is written after the payload
AppendTimestampAfter(value, time) == value \o to_le_bytes(time, 8)
\* mutant: the time is not read from the clock
AppendTimestampEpoch(value, time) == to_le_bytes(0, 8) \o value

append_timestamp(value, time) == to_le_bytes(time, 8) \o value

\* drain(..8) panics on a blob shorter than 8 bytes
SplitPanics(value_from_db) == Len(value_from_db) < 8
split_value_and_timestamp(value_from_db) ==
    << from_le_bytes(SubSeq(value_from_db, 1, 8)),
       SubSeq(value_from_db, 9, Len(value_from_db)) >>

\* -------------------------------------------------------------- engine
DbGet(d, key) == IF key \in DOMAIN d THEN d[key] ELSE None
DbPut(d, key, bytes) == [d EXCEPT ![key] = Some(bytes)]
DbDelete(d, key) == IF key \in DOMAIN d THEN [d EXCEPT ![key] = None] ELSE d
StoredKeys(d) == {k \in DOMAIN d : d[k] # None}
\* full_iterator(IteratorMode::Start): every stored key, in key order
FullIterator(d) ==
    LET ks == SortKeys(StoredKeys(d))
    IN [i \in 1..Len(ks) |-> <<ks[i], d[ks[i]][1]>>]

set_size(d, num) == DbPut(d, KEY_FOR_SIZE, to_le_bytes(num, 8))
PersistedSize(d) == from_le_bytes(d[KEY_FOR_SIZE][1])
UserKeysOf(d) == DOMAIN d \ {KEY_FOR_SIZE}
LiveKeys(d) == StoredKeys(d) \ {KEY_FOR_SIZE}
LiveCount(d) == Cardinality(LiveKeys(d))

\* get_with_timestamp::<ty>: a read error and a missing key are None; a short
\* blob and a payload of another shape panic (drain, unwrap)
get_with_timestamp(d, key, ty, readFails) ==
    IF readFails \/ DbGet(d, key) = None THEN [panic |-> FALSE, res |-> None]
    ELSE LET blob == DbGet(d, key)[1]
         IN IF SplitPanics(blob) THEN [panic |-> TRUE, res |-> None]
            ELSE LET tv == split_value_and_timestamp(blob)
                     de == deserialize(ty, tv[2])
                 IN IF ~de.ok THEN [panic |-> TRUE, res |-> None]
                    ELSE [panic |-> FALSE, res |-> Some(<<tv[1], de.v>>)]

\* get::<ty>: the payload without the timestamp
get(d, key, ty, readFails) ==
    LET r == get_with_timestamp(d, key, ty, readFails)
    IN [panic |-> r.panic,
        res |-> IF r.res = None THEN None ELSE Some(r.res[1][2])]

\* --------------------------------------------------------------- state
VARIABLES
    capacity,         \* FileDB.capacity
    expiring_secs,    \* FileDB.expiring_secs
    overflow_checks,  \* the build: TRUE panics on integer overflow, FALSE wraps
    now,              \* SystemTime::now() in seconds
    db,               \* the engine: key -> None | Some(blob), counter key included
    size,             \* the value inside FileDB.size (RwLock<usize>)
    lock,             \* the thread holding the write lock, 0 when free
    poisoned,         \* a thread panicked while holding the lock
    pc,               \* thread -> position in its call
    loc,              \* thread -> the call's arguments, locals and result
    pre,              \* thread -> size, db and time when the call took the lock
    written,          \* key -> the payload last stored by a successful set
    faults            \* engine failures injected so far

vars == <<capacity, expiring_secs, overflow_checks, now, db, size, lock,
          poisoned, pc, loc, pre, written, faults>>
config == <<capacity, expiring_secs, overflow_checks>>

Threads == DOMAIN pc

Locals0 ==
    [op |-> "none", key |-> <<>>, val |-> 0, ty |-> "none", with_ts |-> FALSE,
     csize |-> 0, ctime |-> 0, limit |-> 0, iter |-> <<>>,
     oldest_key |-> <<>>, oldest_timestamp |-> 0,
     compacted |-> FALSE, existed |-> FALSE,
     ret |-> "none", got |-> None]
Pre0 == [size |-> 0, db |-> <<>>, now |-> 0]
\* `written`: no payload of a successful set is in the store under the key
\* (never set, or deleted since), or payload number val is
NotStored == [st |-> "absent", val |-> 0]
Stored(val) == [st |-> "stored", val |-> val]
Forget(w, key) == IF key \in DOMAIN w THEN [w EXCEPT ![key] = NotStored] ELSE w

\* an engine operation may fail while the fault budget lasts
FaultChoices == IF faults < MaxFaults THEN {FALSE, TRUE} ELSE {FALSE}
Charge(fails) == faults' = IF fails THEN faults + 1 ELSE faults

\* FileDB::new on a fresh directory: get_size finds no counter and stores 0
NewDb(keys) ==
    [k \in {KEY_FOR_SIZE} \cup keys |->
        IF k = KEY_FOR_SIZE THEN Some(to_le_bytes(0, 8)) ELSE None]

InitWith(threads, keys, capacities, expirings, injected) ==
    /\ capacity \in capacities
    /\ expiring_secs \in expirings
    /\ overflow_checks \in BOOLEAN
    /\ now = 1
    /\ db = NewDb(keys)
    /\ size = PersistedSize(NewDb(keys))
    /\ lock = 0
    /\ poisoned = FALSE
    /\ pc = [t \in threads |-> "idle"]
    /\ loc = [t \in threads |-> Locals0]
    /\ pre = [t \in threads |-> Pre0]
    /\ written = [k \in keys |-> NotStored]
    /\ faults = injected

Init == InitWith({1}, UserKeys, 1..MaxCapacity, 1..MaxExpiring, 0)

\* ------------------------------------------------------- control steps
\* the thread unwinds; a write guard dropped by a panic poisons the lock
Unwind(t) ==
    /\ pc' = [pc EXCEPT ![t] = "panicked"]
    /\ poisoned' = (poisoned \/ lock = t)
    /\ lock' = IF lock = t THEN 0 ELSE lock

\* the call returns `result`; the write guard is dropped
Finish(t, result) ==
    /\ pc' = [pc EXCEPT ![t] = "done"]
    /\ loc' = [loc EXCEPT ![t].ret = result]
    /\ lock' = IF lock = t THEN 0 ELSE lock
    /\ poisoned' = poisoned

Goto(t, label) ==
    /\ pc' = [pc EXCEPT ![t] = label]
    /\ UNCHANGED <<lock, poisoned>>

Tick ==
    /\ now < MaxTime
    /\ now' = now + 1
    /\ UNCHANGED <<config, db, size, lock, poisoned, pc, loc, pre, written, faults>>

\* a panic: the thread unwinds with locals l
Panic(t, l, why) ==
    /\ Unwind(t)
    /\ loc' = [loc EXCEPT ![t] = [l EXCEPT !.ret = why]]

\* x -= 1 and x += 1 on a usize
DecPanics(x) == overflow_checks /\ SubOverflows(x, 1)
Dec(x) == WrappingSub(x, 1)
Inc(x) == (x + 1) % U64Modulus

\* ------------------------------------------------------------ compact
\* compact, lines 85-94: the time, the limit, the iterator
CompactBegin(t) ==
    /\ pc[t] = "compact_begin"
    /\ IF overflow_checks /\ SubOverflows(now, expiring_secs)
       THEN Panic(t, loc[t], "panic: subtract with overflow")
       ELSE /\ Goto(t, "compact_scan")
            /\ loc' = [loc EXCEPT ![t].csize = size,
                                  ![t].ctime = now,
                                  ![t].limit = WrappingSub(now, expiring_secs),
                                  ![t].iter = FullIterator(db),
                                  ![t].oldest_key = <<>>,
                                  ![t].oldest_timestamp = U64_MAX,
                                  ![t].compacted = TRUE]
    /\ UNCHANGED <<config, now, db, size, pre, written, faults>>

\* the entry the scan keeps as oldest after seeing (key, timestamp)
ScanOldest(l, key, timestamp) ==
    IF timestamp < l.oldest_timestamp
    THEN [key |-> key, timestamp |-> timestamp]
    ELSE [key |-> l.oldest_key, timestamp |-> l.oldest_timestamp]

\* mutant: the scan spares entries up to one second past the limit
ScanExpiredLate(l, timestamp) == timestamp + 1 < l.limit

\* whether the scan deletes an entry with this timestamp
ScanExpired(l, timestamp) == timestamp < l.limit

\* compact, lines 95-109: one iteration of the scan
CompactScan(t) ==
    /\ pc[t] = "compact_scan"
    /\ loc[t].iter # <<>>
    /\ LET l == loc[t]
           key == Head(l.iter)[1]
           value == Head(l.iter)[2]
       IN IF key = KEY_FOR_SIZE
          THEN /\ Goto(t, "compact_scan")
               /\ loc' = [loc EXCEPT ![t].iter = Tail(l.iter)]
               /\ UNCHANGED <<db, written, faults>>
          ELSE IF SplitPanics(value)
          THEN /\ Panic(t, l, "panic: short blob")
               /\ UNCHANGED <<db, written, faults>>
          ELSE LET timestamp == split_value_and_timestamp(value)[1]
                   o == ScanOldest(l, key, timestamp)
                   seen == [l EXCEPT !.iter = Tail(l.iter),
                                     !.oldest_key = o.key,
                                     !.oldest_timestamp = o.timestamp]
               IN IF ~ScanExpired(l, timestamp)
                  THEN /\ Goto(t, "compact_scan")
                       /\ loc' = [loc EXCEPT ![t] = seen]
                       /\ UNCHANGED <<db, written, faults>>
                  ELSE \E fails \in FaultChoices :
                       /\ Charge(fails)
                       /\ IF fails
                          THEN /\ Panic(t, seen, "panic: delete failed")
                               /\ UNCHANGED <<db, written>>
                          ELSE /\ db' = DbDelete(db, key)
                               /\ written' = Forget(written, key)
                               /\ IF DecPanics(l.csize)
                                  THEN Panic(t, seen, "panic: subtract with overflow")
                                  ELSE /\ Goto(t, "compact_scan")
                                       /\ loc' = [loc EXCEPT ![t] =
                                              [seen EXCEPT !.csize = Dec(l.csize)]]
    /\ UNCHANGED <<config, now, size, pre>>

\* mutants: the oldest entry goes only above capacity; it always goes
EvictOldestStrict(csize) == csize > capacity
EvictOldestAlways(csize) == TRUE

\* whether the step after the scan deletes the oldest candidate
EvictOldest(csize) == csize >= capacity

\* compact, lines 111-116, and the assignment of its result at line 123
CompactEvict(t) ==
    /\ pc[t] = "compact_scan"
    /\ loc[t].iter = <<>>
    /\ LET l == loc[t]
       IN IF ~EvictOldest(l.csize)
          THEN /\ Goto(t, "set_persist_compact")
               /\ size' = l.csize
               /\ UNCHANGED <<db, loc, written, faults>>
          ELSE \E fails \in FaultChoices :
               /\ Charge(fails)
               /\ IF fails
                  THEN /\ Panic(t, l, "panic: delete failed")
                       /\ UNCHANGED <<db, size, written>>
                  ELSE /\ db' = DbDelete(db, l.oldest_key)
                       /\ written' = Forget(written, l.oldest_key)
                       /\ IF DecPanics(l.csize)
                          THEN /\ Panic(t, l, "panic: subtract with overflow")
                               /\ UNCHANGED size
                          ELSE /\ Goto(t, "set_persist_compact")
                               /\ size' = Dec(l.csize)
                               /\ loc' = [loc EXCEPT ![t].csize = Dec(l.csize)]
    /\ UNCHANGED <<config, now, pre>>

\* mutant: the count is not written to the store
PersistSizeSkipped(t, next) ==
    /\ Goto(t, next)
    /\ UNCHANGED <<config, now, db, size, loc, pre, written, faults>>

\* set_size under the lock: a failed put is unwrapped
PersistSize(t, next) ==
    /\ \E fails \in FaultChoices :
       /\ Charge(fails)
       /\ IF fails
          THEN /\ Panic(t, loc[t], "panic: set_size failed")
               /\ UNCHANGED db
          ELSE /\ Goto(t, next)
               /\ db' = set_size(db, size)
               /\ UNCHANGED loc
    /\ UNCHANGED <<config, now, size, pre, written>>

\* mutant: the guard is handed out while another thread holds it
WriteLockShared(t, next) ==
    /\ IF poisoned
       THEN /\ Panic(t, loc[t], "panic: poisoned lock")
            /\ UNCHANGED pre
       ELSE /\ lock' = t
            /\ poisoned' = poisoned
            /\ pc' = [pc EXCEPT ![t] = next]
            /\ pre' = [pre EXCEPT ![t] = [size |-> size, db |-> db, now |-> now]]
            /\ UNCHANGED loc
    /\ UNCHANGED <<config, now, db, size, written, faults>>

\* self.size.write().unwrap(): the guard, or a panic on a poisoned lock
WriteLock(t, next) ==
    /\ lock = 0
    /\ IF poisoned
       THEN /\ Panic(t, loc[t], "panic: poisoned lock")
            /\ UNCHANGED pre
       ELSE /\ lock' = t
            /\ poisoned' = poisoned
            /\ pc' = [pc EXCEPT ![t] = next]
            /\ pre' = [pre EXCEPT ![t] = [size |-> size, db |-> db, now |-> now]]
            /\ UNCHANGED loc
    /\ UNCHANGED <<config, now, db, size, written, faults>>

\* ---------------------------------------------------------------- set
CallSet(t, key, val) ==
    /\ pc[t] = "idle"
    /\ Goto(t, "set_lock")
    /\ loc' = [loc EXCEPT ![t] = [Locals0 EXCEPT !.op = "set", !.key = key, !.val = val]]
    /\ UNCHANGED <<config, now, db, size, pre, written, faults>>

\* mutant: compaction starts one entry early
CompactionNeededEarly(count) == count + 1 >= capacity

\* set, line 122
CompactionNeeded(count) == count >= capacity

\* set, lines 120-122: the lock, then the branch on the count
SetLock(t) ==
    /\ pc[t] = "set_lock"
    /\ WriteLock(t, IF CompactionNeeded(size) THEN "compact_begin" ELSE "set_lookup")

\* set, line 124
SetPersistCompact(t) ==
    /\ pc[t] = "set_persist_compact"
    /\ PersistSize(t, "set_lookup")

\* set, lines 127-129: the existence lookup and the increment
SetLookup(t) ==
    /\ pc[t] = "set_lookup"
    /\ \E fails \in FaultChoices :
       /\ Charge(fails)
       /\ LET r == get(db, loc[t].key, "VecU8", fails)
          IN IF r.panic
             THEN /\ Panic(t, loc[t], "panic: read")
                  /\ UNCHANGED size
             ELSE IF r.res = None
             THEN /\ Goto(t, "set_persist_incr")
                  /\ size' = Inc(size)
                  /\ loc' = [loc EXCEPT ![t].existed = FALSE]
             ELSE /\ Goto(t, "set_put")
                  /\ loc' = [loc EXCEPT ![t].existed = TRUE]
                  /\ UNCHANGED size
    /\ UNCHANGED <<config, now, db, pre, written>>

\* mutant: the incremented count is not persisted before the entry is put
SetPersistIncrSkipped(t) ==
    /\ pc[t] = "set_persist_incr"
    /\ PersistSizeSkipped(t, "set_put")

\* set, line 130
SetPersistIncr(t) ==
    /\ pc[t] = "set_persist_incr"
    /\ PersistSize(t, "set_put")

\* set, lines 134-139: serialize, prepend the time, put
SetPut(t) ==
    /\ pc[t] = "set_put"
    /\ LET ser == serialize(Values[loc[t].val])
       IN IF ~ser.ok
          THEN /\ Finish(t, "err")
               /\ UNCHANGED <<db, written, faults>>
          ELSE \E fails \in FaultChoices :
               /\ Charge(fails)
               /\ IF fails
                  THEN /\ Finish(t, "err")
                       /\ UNCHANGED <<db, written>>
                  ELSE /\ Finish(t, "ok")
                       /\ db' = DbPut(db, loc[t].key, append_timestamp(ser.bytes, now))
                       /\ written' = [written EXCEPT ![loc[t].key] = Stored(loc[t].val)]
    /\ UNCHANGED <<config, now, size, pre>>

\* ------------------------------------------------------------- remove
CallRemove(t, key) ==
    /\ pc[t] = "idle"
    /\ Goto(t, "remove_lock")
    /\ loc' = [loc EXCEPT ![t] = [Locals0 EXCEPT !.op = "remove", !.key = key]]
    /\ UNCHANGED <<config, now, db, size, pre, written, faults>>

\* remove, line 143
RemoveLock(t) ==
    /\ pc[t] = "remove_lock"
    /\ WriteLock(t, "remove_lookup")

\* mutant: remove deletes without looking the key up
RemoveLookupNoCheck(t) ==
    /\ pc[t] = "remove_lookup"
    /\ Goto(t, "remove_delete")
    /\ UNCHANGED <<config, now, db, size, loc, pre, written, faults>>

\* remove, lines 144-146
RemoveLookup(t) ==
    /\ pc[t] = "remove_lookup"
    /\ \E fails \in FaultChoices :
       /\ Charge(fails)
       /\ LET r == get(db, loc[t].key, "VecU8", fails)
          IN IF r.panic
             THEN Panic(t, loc[t], "panic: read")
             ELSE IF r.res = None
             THEN Finish(t, "ok")
             ELSE /\ Goto(t, "remove_delete")
                  /\ loc' = [loc EXCEPT ![t].existed = TRUE]
    /\ UNCHANGED <<config, now, db, size, pre, written>>

\* mutant: the count is decremented before the delete is known to succeed
RemoveDeleteCountsFirst(t) ==
    /\ pc[t] = "remove_delete"
    /\ \E fails \in FaultChoices :
       /\ Charge(fails)
       /\ IF DecPanics(size)
          THEN /\ Panic(t, loc[t], "panic: subtract with overflow")
               /\ UNCHANGED <<db, size, written>>
          ELSE /\ size' = Dec(size)
               /\ IF fails
                  THEN /\ Finish(t, "err")
                       /\ UNCHANGED <<db, written>>
                  ELSE /\ Goto(t, "remove_persist")
                       /\ db' = DbDelete(db, loc[t].key)
                       /\ written' = Forget(written, loc[t].key)
                       /\ UNCHANGED loc
    /\ UNCHANGED <<config, now, pre>>

\* remove, lines 148-151: the delete and the decrement
RemoveDelete(t) ==
    /\ pc[t] = "remove_delete"
    /\ \E fails \in FaultChoices :
       /\ Charge(fails)
       /\ IF fails
          THEN /\ Finish(t, "err")
               /\ UNCHANGED <<db, size, written>>
          ELSE /\ db' = DbDelete(db, loc[t].key)
               /\ written' = Forget(written, loc[t].key)
               /\ IF DecPanics(size)
                  THEN /\ Panic(t, loc[t], "panic: subtract with overflow")
                       /\ UNCHANGED size
                  ELSE /\ Goto(t, "remove_persist")
                       /\ size' = Dec(size)
                       /\ UNCHANGED loc
    /\ UNCHANGED <<config, now, pre>>

\* remove, lines 152-153
RemovePersist(t) ==
    /\ pc[t] = "remove_persist"
    /\ \E fails \in FaultChoices :
       /\ Charge(fails)
       /\ IF fails
          THEN /\ Panic(t, loc[t], "panic: set_size failed")
               /\ UNCHANGED db
          ELSE /\ Finish(t, "ok")
               /\ db' = set_size(db, size)
    /\ UNCHANGED <<config, now, size, pre, written>>

\* ---------------------------------------------------------------- get
\* get / get_with_timestamp: one engine read, no lock
CallGet(t, key, ty, with_ts) ==
    /\ pc[t] = "idle"
    /\ \E fails \in FaultChoices :
       /\ Charge(fails)
       /\ LET r == IF with_ts THEN get_with_timestamp(db, key, ty, fails)
                              ELSE get(db, key, ty, fails)
              l == [Locals0 EXCEPT !.op = "get", !.key = key, !.ty = ty,
                                   !.with_ts = with_ts]
          IN IF r.panic
             THEN Panic(t, l, "panic: read")
             ELSE /\ pc' = [pc EXCEPT ![t] = "done"]
                  /\ loc' = [loc EXCEPT ![t] = [l EXCEPT !.ret = "ok", !.got = r.res]]
                  /\ UNCHANGED <<lock, poisoned>>
    /\ UNCHANGED <<config, now, db, size, pre, written>>

\* the caller takes the result and is free to call again
Return(t) ==
    /\ pc[t] = "done"
    /\ Goto(t, "idle")
    /\ loc' = [loc EXCEPT ![t] = Locals0]
    /\ pre' = [pre EXCEPT ![t] = Pre0]
    /\ UNCHANGED <<config, now, db, size, written, faults>>

\* the calls threads make on keys `keys` with payloads `vals`
SetCalls(keys, vals) ==
    \E t \in Threads, key \in keys, val \in vals : CallSet(t, key, val)
RemoveCalls(keys) ==
    \E t \in Threads, key \in keys : CallRemove(t, key)
GetCalls(keys) ==
    \E t \in Threads, key \in keys, ty \in GetTypes, with_ts \in BOOLEAN :
        CallGet(t, key, ty, with_ts)

\* the steps of the calls in progress
Steps ==
    \/ \E t \in Threads : SetLock(t)
    \/ \E t \in Threads : CompactBegin(t)
    \/ \E t \in Threads : CompactScan(t)
    \/ \E t \in Threads : CompactEvict(t)
    \/ \E t \in Threads : SetPersistCompact(t)
    \/ \E t \in Threads : SetLookup(t)
    \/ \E t \in Threads : SetPersistIncr(t)
    \/ \E t \in Threads : SetPut(t)
    \/ \E t \in Threads : RemoveLock(t)
    \/ \E t \in Threads : RemoveLookup(t)
    \/ \E t \in Threads : RemoveDelete(t)
    \/ \E t \in Threads : RemovePersist(t)
    \/ \E t \in Threads : Return(t)

Next ==
    \/ Tick
    \/ SetCalls(UserKeys, ValueIds)
    \/ RemoveCalls(UserKeys)
    \/ GetCalls(UserKeys)
    \/ Steps

Spec == Init /\ [][Next]_vars

\* several threads share one FileDB with capacity 1 and a working engine;
\* they set, remove and get the first two keys
InitConc == InitWith(1..NumThreads, {UserKey(1), UserKey(2)}, {1}, {1}, MaxFaults)
NextConc ==
    \/ Tick
    \/ SetCalls(UserKeysOf(db), {2})
    \/ RemoveCalls(UserKeysOf(db))
    \/ GetCalls(UserKeysOf(db))
    \/ Steps
SpecConc == InitConc /\ [][NextConc]_vars

\* get_size: the stored counter, or 0 stored and returned when there is none
get_size(d) ==
    IF DbGet(d, KEY_FOR_SIZE) = None
    THEN [db |-> set_size(d, 0), size |-> 0]
    ELSE [db |-> d, size |-> from_le_bytes(DbGet(d, KEY_FOR_SIZE)[1])]

\* the process stops at any point (a crash, or the end of a panic) and a new
\* process opens the same directory: FileDB::new loads the count with
\* get_size; the calls in progress are gone and the lock is new
Reopen ==
    /\ \E t \in Threads : pc[t] # "idle"
    /\ db' = get_size(db).db
    /\ size' = get_size(db).size
    /\ lock' = 0
    /\ poisoned' = FALSE
    /\ pc' = [t \in Threads |-> "idle"]
    /\ loc' = [t \in Threads |-> [Locals0 EXCEPT !.op = "new"]]
    /\ pre' = [t \in Threads |-> Pre0]
    /\ UNCHANGED <<config, now, written, faults>>

NextCrash ==
    \/ Next
    \/ Reopen
SpecCrash == Init /\ [][NextCrash]_vars

\* FileDB::new accepts capacity 0: every set compacts, and without overflow
\* checks the count wraps below zero.  Calls are made while the count is
\* within MaxWrapped of zero; the engine works.
InitZero == InitWith({1}, {UserKey(1), UserKey(2)}, {0}, 1..MaxExpiring, MaxFaults)
NearZero(count) == count <= MaxWrapped \/ count >= U64Modulus - MaxWrapped
NextZero ==
    \/ Tick
    \/ NearZero(size) /\ SetCalls(UserKeysOf(db), {2})
    \/ NearZero(size) /\ RemoveCalls(UserKeysOf(db))
    \/ GetCalls(UserKeysOf(db))
    \/ Steps
SpecZero == InitZero /\ [][NextZero]_vars

\* the test test_compaction, with the final set made on the new key 6 as
\* well as on key 4: capacity 5, a TTL of 1 s, a sleep of 3 s after key 3
ScenarioCapacity == 5
ScenarioTtl == 1
ScenarioSleep == 3
ScenarioKeys == {UserKey(i) : i \in 1..(ScenarioCapacity + 1)}
FirstKeys(n) == {UserKey(i) : i \in 1..n}

InitScenarioA ==
    InitWith({1}, ScenarioKeys, {ScenarioCapacity}, {ScenarioTtl}, MaxFaults)

\* store.set(key i) for i = 1..5, keys 4 and 5 after the sleep
ScenarioFill ==
    \E i \in 1..ScenarioCapacity :
       /\ LiveKeys(db) = FirstKeys(i - 1)
       /\ i > 3 => now > 1
       /\ CallSet(1, UserKey(i), 2)

\* thread::sleep(Duration::from_secs(3))
ScenarioSleeps ==
    /\ pc[1] = "idle"
    /\ LiveKeys(db) = FirstKeys(3)
    /\ now = 1
    /\ now' = now + ScenarioSleep
    /\ UNCHANGED <<config, db, size, lock, poisoned, pc, loc, pre, written, faults>>

\* the set made on the full store
ScenarioOverflow ==
    \E key \in {UserKey(4), UserKey(ScenarioCapacity + 1)} :
       /\ LiveKeys(db) = FirstKeys(ScenarioCapacity)
       /\ CallSet(1, key, 2)

\* store.remove(key 4) after the compaction
ScenarioRemove ==
    /\ now > 1
    /\ UserKey(1) \notin LiveKeys(db)
    /\ UserKey(4) \in LiveKeys(db)
    /\ CallRemove(1, UserKey(4))

NextScenarioA ==
    \/ ScenarioFill
    \/ ScenarioSleeps
    \/ ScenarioOverflow
    \/ ScenarioRemove
    \/ GetCalls(UserKeysOf(db))
    \/ Steps

SpecScenarioA == InitScenarioA /\ [][NextScenarioA]_vars

\* =============================================================== claims
Done(t, op, ret) == pc[t] = "done" /\ loc[t].op = op /\ loc[t].ret = ret
TimestampOf(d, key) == split_value_and_timestamp(d[key][1])[1]
\* no get of the key, of any type, finds an entry
Absent(d, key) ==
    \A ty \in GetTypes :
       /\ get(d, key, ty, FALSE) = [panic |-> FALSE, res |-> None]
       /\ get_with_timestamp(d, key, ty, FALSE) = [panic |-> FALSE, res |-> None]

\* C1 (capacity bound): with capacity >= 1, whenever a set call has returned
\* successfully, the number of live entries (stored keys other than the
\* counter key) is at most capacity.
C1_CapacityBound ==
    \A t \in Threads :
       (capacity >= 1 /\ Done(t, "set", "ok")) => LiveCount(db) <= capacity

\* C1 witness: a successful set of a new key on a full store of two entries,
\* which compacted and left the store full.
C1_Witness ==
    \E t \in Threads :
       /\ Done(t, "set", "ok")
       /\ capacity >= 2
       /\ loc[t].compacted
       /\ LiveCount(pre[t].db) = capacity
       /\ pre[t].db[loc[t].key] = None
       /\ LiveCount(db) = capacity

\* C2 (counter invariant I1), as claimed: at the end of every successful set or
\* remove, also after earlier failed calls, the size mirror equals the number
\* of live entries.
C2_CounterInvariant ==
    \A t \in Threads :
       (Done(t, "set", "ok") \/ Done(t, "remove", "ok")) => size = LiveCount(db)

\* C3 (round trip): a key whose last successful set stored payload v, and that
\* no eviction or remove deleted since, yields v from get and
\* get_with_timestamp (read without an engine error); this holds at the
\* return of the set itself, whose compaction ran before its put; every other
\* key yields None.
C3_RoundTrip ==
    /\ \A k \in UserKeysOf(db) :
          IF written[k].st = "stored"
          THEN LET val == Values[written[k].val]
                   g == get(db, k, val.ty, FALSE)
                   gt == get_with_timestamp(db, k, val.ty, FALSE)
               IN /\ ~g.panic /\ g.res = Some(val.v)
                  /\ ~gt.panic /\ gt.res # None /\ gt.res[1][2] = val.v
          ELSE Absent(db, k)
    /\ \A t \in Threads :
          Done(t, "set", "ok") =>
             /\ written[loc[t].key] = Stored(loc[t].val)
             /\ get(db, loc[t].key, Values[loc[t].val].ty, FALSE).res
                   = Some(Values[loc[t].val].v)

\* C3 witness: a successful set of a key that the compaction of the same call
\* had deleted (it was stored before the call and gone at the lookup).
C3_Witness ==
    \E t \in Threads :
       /\ Done(t, "set", "ok")
       /\ faults = 0
       /\ loc[t].compacted
       /\ pre[t].db[loc[t].key] # None
       /\ ~loc[t].existed
       /\ get(db, loc[t].key, Values[loc[t].val].ty, FALSE).res
             = Some(Values[loc[t].val].v)

Existed(t) == pre[t].db[loc[t].key] # None
Renewed(t) ==
    /\ pre[t].now <= TimestampOf(db, loc[t].key)
    /\ TimestampOf(db, loc[t].key) <= now

\* C4 (refresh), as claimed: a successful set on a key that exists leaves the
\* live-entry count as it was, in every pre-state, and renews the timestamp.
C4_RefreshOriginal ==
    \A t \in Threads :
       (Done(t, "set", "ok") /\ Existed(t)) =>
          /\ LiveCount(db) = LiveCount(pre[t].db)
          /\ Renewed(t)

\* C4 (refresh), amended: a successful set on a key that exists renews the
\* key's timestamp to the time of the call; it leaves the live-entry count
\* as it was when the count is below capacity, and never raises it: with
\* the count at capacity the set compacts first and the live-entry count may
\* drop.
C4_Refresh ==
    \A t \in Threads :
       (Done(t, "set", "ok") /\ Existed(t)) =>
          /\ Renewed(t)
          /\ pre[t].size < capacity => LiveCount(db) = LiveCount(pre[t].db)
          /\ LiveCount(db) <= LiveCount(pre[t].db)

\* C4 witness: a refresh at capacity that evicted another entry and moved the
\* key's timestamp forward.
C4_Witness ==
    \E t \in Threads :
       /\ Done(t, "set", "ok")
       /\ Existed(t)
       /\ pre[t].size = capacity
       /\ LiveCount(db) < LiveCount(pre[t].db)
       /\ TimestampOf(db, loc[t].key) > TimestampOf(pre[t].db, loc[t].key)

\* C5 (idempotent remove): remove of a key that is absent returns Ok and
\* leaves the size mirror, the persisted counter and every stored entry as
\* they were.
C5_RemoveAbsent ==
    \A t \in Threads :
       (pc[t] = "done" /\ loc[t].op = "remove" /\ ~Existed(t)) =>
          /\ loc[t].ret = "ok"
          /\ size = pre[t].size
          /\ PersistedSize(db) = PersistedSize(pre[t].db)
          /\ db = pre[t].db

\* C5 witness: remove of an absent key returned on a store that holds entries.
C5_Witness ==
    \E t \in Threads :
       /\ Done(t, "remove", "ok")
       /\ ~Existed(t)
       /\ LiveCount(db) >= 1
       /\ size >= 1

\* the compaction of t's call has run: compact has returned
AfterScan(t) ==
    /\ loc[t].compacted
    /\ pc[t] \in {"set_persist_compact", "set_lookup", "set_persist_incr",
                  "set_put", "done"}
\* key k is not the key the call has just stored again
NotRefreshed(t, k) == ~(pc[t] = "done" /\ loc[t].ret = "ok" /\ loc[t].key = k)

\* C6 (TTL eviction), as claimed: once a compaction that started at time c
\* has run, no get finds an entry that was inserted at a time
\* t with c >= t + expiring_secs and not set again.
C6_TtlOriginal ==
    \A t \in Threads :
       AfterScan(t) =>
          \A k \in UserKeysOf(db) :
             ( /\ pre[t].db[k] # None
               /\ loc[t].ctime >= TimestampOf(pre[t].db, k) + expiring_secs
               /\ NotRefreshed(t, k) ) => Absent(db, k)

\* C6 (TTL eviction), amended: once a compaction that started at time c has
\* run, no get finds an entry that was inserted at a time t with
\* c > t + expiring_secs and not set again; at c = t + expiring_secs the
\* entry is not expired.
C6_Ttl ==
    \A t \in Threads :
       AfterScan(t) =>
          \A k \in UserKeysOf(db) :
             ( /\ pre[t].db[k] # None
               /\ loc[t].ctime > TimestampOf(pre[t].db, k) + expiring_secs
               /\ NotRefreshed(t, k) ) => Absent(db, k)

\* C6 witness: a compaction deleted an expired entry and kept an entry that
\* was exactly expiring_secs old.
C6_Witness ==
    \E t \in Threads :
       /\ AfterScan(t)
       /\ \E k \in UserKeysOf(db) :
             /\ pre[t].db[k] # None
             /\ loc[t].ctime > TimestampOf(pre[t].db, k) + expiring_secs
             /\ Absent(db, k)
       /\ \E k \in UserKeysOf(db) :
             /\ db[k] # None
             /\ loc[t].ctime = TimestampOf(db, k) + expiring_secs

\* the set of key i has returned Ok in the scenario, on a store holding keys 1..n
ScenarioSetDone(i, n) ==
    /\ Done(1, "set", "ok")
    /\ loc[1].key = UserKey(i)
    /\ LiveKeys(pre[1].db) = FirstKeys(n)

\* C7 (Scenario A), as claimed: the count is i after inserting key i for
\* i = 1..5; the set of the new key 6 deletes keys 1, 2 and 3, which get no
\* longer finds, and the count is 2 when it returns.
C7_ScenarioAOriginal ==
    /\ \A i \in 1..ScenarioCapacity :
          ScenarioSetDone(i, i - 1) => size = i /\ LiveCount(db) = i
    /\ ScenarioSetDone(ScenarioCapacity + 1, ScenarioCapacity) =>
          /\ \A i \in 1..3 : Absent(db, UserKey(i))
          /\ size = 2
          /\ LiveCount(db) = 2

\* C7 (Scenario A), amended: the count is i after inserting key i for
\* i = 1..5; the set of the new key 6 deletes keys 1, 2 and 3, which get no
\* longer finds; the count is 2 after its compaction and 3 when the set
\* returns (keys 4, 5 and 6).  The count is 2 when the final set is made on
\* the existing key 4, as in the test.
C7_ScenarioA ==
    /\ \A i \in 1..ScenarioCapacity :
          ScenarioSetDone(i, i - 1) => size = i /\ LiveCount(db) = i
    /\ ( /\ pc[1] = "set_persist_compact"
         /\ LiveKeys(pre[1].db) = FirstKeys(ScenarioCapacity) ) =>
          size = 2 /\ LiveKeys(db) = {UserKey(4), UserKey(5)}
    /\ ScenarioSetDone(ScenarioCapacity + 1, ScenarioCapacity) =>
          /\ \A i \in 1..3 : Absent(db, UserKey(i))
          /\ size = 3
          /\ LiveKeys(db) = {UserKey(4), UserKey(5), UserKey(6)}
    /\ ScenarioSetDone(4, ScenarioCapacity) =>
          /\ \A i \in 1..3 : Absent(db, UserKey(i))
          /\ size = 2
          /\ LiveKeys(db) = {UserKey(4), UserKey(5)}

\* C7 witness: the set of key 6 on the store of keys 1..5 has returned.
C7_Witness ==
    /\ ScenarioSetDone(ScenarioCapacity + 1, ScenarioCapacity)
    /\ loc[1].compacted
    /\ size = 3

\* C8 (read errors are misses), as claimed: no call of get or
\* get_with_timestamp, and no existence lookup of set or remove, aborts on a
\* blob that is too short or does not deserialize.
C8_ReadAnomaliesAreMisses ==
    \A t \in Threads : ~(pc[t] = "panicked" /\ loc[t].ret = "panic: read")

\* between taking the lock and returning
InCall(t) ==
    pc[t] \in {"compact_begin", "compact_scan", "set_persist_compact",
               "set_lookup", "set_persist_incr", "set_put",
               "remove_lookup", "remove_delete", "remove_persist"}

\* the store differs from the one t locked only by t's own writes so far:
\* entries it deleted, and the counter as it was, as its compaction left it
\* or as the size mirror is
OwnWritesOnly(t) ==
    /\ \A k \in UserKeysOf(db) : db[k] = pre[t].db[k] \/ db[k] = None
    /\ PersistedSize(db) \in
          {PersistedSize(pre[t].db), size} \cup
          (IF loc[t].compacted THEN {loc[t].csize} ELSE {})

\* C9 (serialized mutations): a thread inside set or remove holds the lock
\* from its first read of the count to its last engine write, no other
\* thread is inside set or remove meanwhile, and the store it works on
\* changes only by its own writes.
C9_Serialized ==
    \A t \in Threads :
       InCall(t) =>
          /\ lock = t
          /\ \A u \in Threads \ {t} : ~InCall(u)
          /\ OwnWritesOnly(t)

\* C9 witness: one thread is inside a mutating call on a non-empty store
\* while another waits for the lock.
C9_Witness ==
    \E t \in Threads, u \in Threads :
       /\ t # u
       /\ InCall(t)
       /\ pc[t] = "set_put"
       /\ loc[t].compacted
       /\ pc[u] \in {"set_lock", "remove_lock"}

\* C10 (remove failure): when the engine delete inside remove fails, remove
\* returns an error, the size mirror and the persisted counter keep their
\* values and no entry changes, so a count that equalled the number of live
\* entries still does.
C10_RemoveFailure ==
    \A t \in Threads :
       Done(t, "remove", "err") =>
          /\ size = pre[t].size
          /\ PersistedSize(db) = PersistedSize(pre[t].db)
          /\ db = pre[t].db
          /\ pre[t].size = LiveCount(pre[t].db) => size = LiveCount(db)

\* C10 witness: remove of a stored key returned an error and the count is
\* the number of live entries.
C10_Witness ==
    \E t \in Threads :
       /\ Done(t, "remove", "err")
       /\ Existed(t)
       /\ size = LiveCount(db)
       /\ size >= 1

\* the compaction of t's call has just returned: nothing else has been written
CompactReturned(t) == pc[t] = "set_persist_compact"
\* the entries of the store t locked that its compaction saw as expired
ExpiredAtLock(t) ==
    {k \in LiveKeys(pre[t].db) : TimestampOf(pre[t].db, k) < loc[t].limit}
\* the entries t's call has deleted so far
DeletedSinceLock(t) == LiveKeys(pre[t].db) \ LiveKeys(db)
\* the entries with the least timestamp among the keys ks of store d
Oldest(d, ks) ==
    {k \in ks : \A j \in ks : TimestampOf(d, k) <= TimestampOf(d, j)}

\* C11 (eviction policy), as claimed: a compaction has deleted every expired
\* entry; it has deleted one more entry exactly when the count less the
\* expired entries was still >= capacity and an entry remained, and that
\* entry is an oldest of those that remained; the count it returns is the
\* count it was given less the number of entries it deleted, so nothing is
\* subtracted in the last step when there is no candidate.
C11_EvictionPolicy ==
    \A t \in Threads :
       CompactReturned(t) =>
          LET expired == ExpiredAtLock(t)
              remaining == LiveKeys(pre[t].db) \ expired
              extra == DeletedSinceLock(t) \ expired
              still == pre[t].size - Cardinality(expired) >= capacity
          IN /\ expired \subseteq DeletedSinceLock(t)
             /\ Cardinality(extra) = IF still /\ remaining # {} THEN 1 ELSE 0
             /\ extra \subseteq Oldest(pre[t].db, remaining)
             /\ size = pre[t].size - Cardinality(DeletedSinceLock(t))

\* the entries of the store t locked that are older than expiring_secs at the
\* time t's compaction read the clock
OlderThanTtl(t) ==
    {k \in LiveKeys(pre[t].db) :
        TimestampOf(pre[t].db, k) < loc[t].ctime - expiring_secs}

\* C12 (expired entries go at the next compaction), as claimed: a compaction
\* that ran at time now has deleted every entry whose timestamp is strictly
\* less than now - expiring_secs, and the count it returns is the count it
\* was given less the number of those entries, less at most one more for the
\* oldest-entry step.
C12_ExpiredGoAtCompaction ==
    \A t \in Threads :
       CompactReturned(t) =>
          /\ OlderThanTtl(t) \subseteq DeletedSinceLock(t)
          /\ pre[t].size - size \in
                {Cardinality(OlderThanTtl(t)), Cardinality(OlderThanTtl(t)) + 1}

\* t is inside compact, or has been in this call
InCompact(t) == pc[t] \in {"compact_begin", "compact_scan"} \/ loc[t].compacted
\* t is at a delete of compact, in a set that found the count at capacity
CompactDeletes(t) ==
    /\ loc[t].op = "set"
    /\ pc[t] = "compact_scan"
    /\ pre[t].size >= capacity
\* t is at the delete of remove(k)
RemoveDeletes(t, k) ==
    /\ loc[t].op = "remove"
    /\ pc[t] = "remove_delete"
    /\ loc[t].key = k

\* C13 (compaction trigger and frame): compact runs only inside set and only
\* when the count at the start of the set is >= capacity; every step that
\* deletes an entry is a delete of such a compaction or the delete of
\* remove(k) on its own key k, so a set that found the count below capacity
\* deletes no entry, expired or not, and get, get_with_timestamp and remove
\* delete no other entry.
C13_CompactionTriggerAndFrame ==
    /\ [](\A t \in Threads :
            InCompact(t) => (loc[t].op = "set" /\ pre[t].size >= capacity))
    /\ [][\A k \in UserKeysOf(db) :
            (db[k] # None /\ db'[k] = None) =>
               \E t \in Threads : CompactDeletes(t) \/ RemoveDeletes(t, k)]_vars

\* C13 witness: a set that found the count below capacity has returned and an
\* entry that was past its TTL when the set began is still stored.
C13_Witness ==
    \E t \in Threads :
       /\ Done(t, "set", "ok")
       /\ pre[t].size < capacity
       /\ ~loc[t].compacted
       /\ \E k \in LiveKeys(pre[t].db) \ {loc[t].key} :
             /\ pre[t].now > TimestampOf(pre[t].db, k) + expiring_secs
             /\ db[k] = pre[t].db[k]

\* C14 (oldest-entry eviction with tie-break), as claimed: a compaction that
\* was given a count equal to capacity, on a store holding entries none of
\* which is older than expiring_secs, deletes exactly one entry; that entry
\* has the least timestamp of all entries and, among the entries with that
\* timestamp, is the first in the engine's scan order (key order); every
\* other entry is unchanged.
C14_OldestWithTieBreak ==
    \A t \in Threads :
       ( /\ CompactReturned(t)
         /\ pre[t].size = capacity
         /\ LiveKeys(pre[t].db) # {}
         /\ OlderThanTtl(t) = {} ) =>
          LET oldest == Oldest(pre[t].db, LiveKeys(pre[t].db))
          IN /\ Cardinality(DeletedSinceLock(t)) = 1
             /\ \A k \in DeletedSinceLock(t) :
                   /\ k \in oldest
                   /\ \A j \in oldest \ {k} : BytesLess(k, j)
             /\ \A j \in UserKeysOf(db) \ DeletedSinceLock(t) : db[j] = pre[t].db[j]

\* C15 (compaction of an empty store), as claimed: a compaction invoked with
\* count 0 on a store that holds no entry (capacity 0) deletes nothing and
\* returns count 0; it does not take the count below zero, neither by a
\* panic on the subtraction nor by a wrap.
C15_EmptyStoreNoOp ==
    \A t \in Threads :
       ( /\ loc[t].compacted
         /\ pre[t].size = 0
         /\ LiveKeys(pre[t].db) = {} ) =>
          /\ loc[t].ret # "panic: subtract with overflow"
          /\ CompactReturned(t) => (size = 0 /\ db = pre[t].db)

\* C16 (remove of a present key), as claimed: with a working engine, remove(k)
\* on a key that is stored returns success, after which no get finds k, the
\* size mirror and the persisted counter are one less than before and every
\* other entry is unchanged.
C16_RemovePresent ==
    \A t \in Threads :
       ( /\ loc[t].op = "remove"
         /\ pc[t] \in {"done", "panicked"}
         /\ faults = 0
         /\ Existed(t) ) =>
          /\ Done(t, "remove", "ok")
          /\ Absent(db, loc[t].key)
          /\ size = pre[t].size - 1
          /\ PersistedSize(db) = PersistedSize(pre[t].db) - 1
          /\ \A k \in UserKeysOf(db) \ {loc[t].key} : db[k] = pre[t].db[k]

\* C17 (mirror equals persisted counter): after construction, on a new
\* directory or on one that holds a counter, the size mirror is the value
\* stored under the counter key; and when a set or remove call has returned,
\* with success or with an error, the value stored under the counter key
\* equals the size mirror.
C17_MirrorIsPersisted ==
    /\ (\A t \in Threads : pc[t] = "idle" /\ loc[t].op \in {"none", "new"}) =>
          /\ DbGet(db, KEY_FOR_SIZE) # None
          /\ size = PersistedSize(db)
    /\ \A t \in Threads :
          (pc[t] = "done" /\ loc[t].op \in {"set", "remove"}) =>
             size = PersistedSize(db)

\* C17 witness: a set that failed after counting its key has returned, and the
\* counter in the store is the incremented mirror.
C17_Witness ==
    \E t \in Threads :
       /\ Done(t, "set", "err")
       /\ size = pre[t].size + 1
       /\ PersistedSize(db) = size

\* C18 (failed set leaves the cache unchanged), as claimed: when set returns
\* an error, the size mirror and the persisted counter are what they were
\* before the call, or what the compaction of the call made them, and every
\* entry is as it was before the call or was deleted by that compaction.
C18_FailedSetUnchanged ==
    \A t \in Threads :
       Done(t, "set", "err") =>
          LET count == IF loc[t].compacted THEN loc[t].csize ELSE pre[t].size
          IN /\ size = count
             /\ PersistedSize(db) = count
             /\ \A k \in UserKeysOf(db) :
                   \/ db[k] = pre[t].db[k]
                   \/ loc[t].compacted /\ db[k] = None

\* C19 (the counter never under-counts across a crash): with capacity >= 1
\* and no engine error, at every step of every set, remove and compaction
\* the persisted counter is at least the number of live entries, so the
\* count FileDB::new loads when the directory is opened again, after a stop
\* at any step, is at least the number of live entries.
C19_CounterNeverUnderCounts ==
    (capacity >= 1 /\ faults = 0) =>
       /\ PersistedSize(db) >= LiveCount(db)
       /\ (\A t \in Threads : loc[t].op = "new") => size >= LiveCount(db)

\* C19 witness: the directory was reopened after a stop between the two
\* writes of a call, and the count loaded is more than the number of live
\* entries.
C19_Witness ==
    /\ faults = 0
    /\ \A t \in Threads : loc[t].op = "new"
    /\ size = PersistedSize(db)
    /\ size > LiveCount(db)
    /\ LiveCount(db) >= 1

\* the entries t's call has deleted that were no older than expiring_secs
\* when its compaction read the clock
UnexpiredDeleted(t) ==
    {k \in DeletedSinceLock(t) :
        loc[t].ctime - TimestampOf(pre[t].db, k) <= expiring_secs}

\* C20 (unexpired entries survive TTL expiry), as claimed: for every
\* expiring_secs, also one greater than the current time, a compaction
\* deletes no entry whose age is <= expiring_secs as expired: the set call
\* removes at most one such entry, which is an oldest entry.
C20_UnexpiredSurvive ==
    \A t \in Threads :
       CompactReturned(t) =>
          /\ Cardinality(UnexpiredDeleted(t)) <= 1
          /\ UnexpiredDeleted(t) \subseteq Oldest(pre[t].db, LiveKeys(pre[t].db))

====
